---- MODULE Spec2Model ----
(***************************************************************************)
(* Model of the embedding cache (src/src/arcface.rs), the pair providers   *)
(* (src/src/lfw.rs, src/src/cplfw.rs), the confusion matrix                *)
(* (src/src/misc.rs) and the threshold / feature-subset evaluation engine  *)
(* (src/src/main.rs).                                                      *)
(*                                                                         *)
(* Distances and embedding coordinates are f32 in the program; the model   *)
(* uses small integers, on which f32 arithmetic and comparison are exact.  *)
(***************************************************************************)
EXTENDS Integers, Sequences, FiniteSets, TLC

\* ------------------------------------------------------------------ bounds

\* Largest distance value a Result is filled with.
MaxDist == 2

\* Largest number of distances in each of Result.same and Result.diff.
MaxLen == 2

\* Number of image paths of the dataset.
NumImages == 2

\* Length of an embedding (512 in the program).
EmbLen == 2

\* Number of pair samples the dataset yields.
NumSamples == 2

VARIABLES
    same,   \* Result.same: distances of same-person pairs
    diff,   \* Result.diff: distances of different-person pairs
    ret     \* the value returned by the last call on the Result

VARIABLES
    det,        \* per image path, what reading it and face detection yield
    file,       \* content of the cache file on disk
    proc,       \* "off", "up" (a Recognition exists), "failed", "panicked"
    err,        \* the Error Recognition::new returned, or "none"
    cache_path, \* Recognition.cache_path: "none" or "some"
    emb,        \* Recognition.emb: image path -> embedding
    lastCall,   \* what the last cache_img call did
    prevCall,   \* what the cache_img call before it did
    pairsRet,   \* what Dataset::embeddings returned, if it was the last call
    prevRun     \* emb and cache_path of the previous process, at its exit

VARIABLES
    samples,    \* what data.embeddings(rec) returns during the run
    amount_dim, \* the --amount argument
    gproc,      \* best_elements_greedy: "idle", "run", "done", "panicked"
    fixed,      \* best_elements_greedy: fixed
    gi,         \* best_elements_greedy: the loop variable i
    printed     \* the error count of the last "Best perm with ..." line

VARIABLES
    hproc,        \* heatmap: "idle", "accumulated", "done", "panicked"
    impact_index, \* heatmap: impact_index
    rproc,        \* random_dims(_full): "idle", "dims", "full", "done", "panicked"
    rsize,        \* random_dims(_full): amount_dimensions of the next trial
    rtrial,       \* random_dims: the trials left
    rlast,        \* random_dims(_full): the last line printed
    rcount,       \* random_dims(_full): lines printed so far, per amount_dimensions
    fproc,        \* best_elements_full: "idle", "run", "done", "panicked"
    fi,           \* best_elements_full: the loop variable i
    freports,     \* best_elements_full: the "Best perm with ..." lines printed
    pproc,        \* proposed: "idle", "run", "done", "panicked"
    pk,           \* proposed: the number of samples consumed
    pbuild        \* the build: "debug" (overflow checks) or "release"

resultVars == <<same, diff, ret>>

moreVars ==
    <<hproc, impact_index, rproc, rsize, rtrial, rlast, rcount, fproc, fi,
      freports, pproc, pk, pbuild>>

greedyVars == <<samples, amount_dim, gproc, fixed, gi, printed>>

cacheVars ==
    <<det, file, proc, err, cache_path, emb, lastCall, prevCall, pairsRet, prevRun>>

vars == <<resultVars, cacheVars, greedyVars, moreVars>>

NoLine == [size |-> 0 - 1]

IdleHeatmap == hproc = "idle" /\ impact_index = <<>>

IdleRandom ==
    rproc = "idle" /\ rsize = 0 /\ rtrial = 0 /\ rlast = NoLine /\ rcount = <<>>

IdleFull == fproc = "idle" /\ fi = 0 /\ freports = <<>>

IdleProposed == pproc = "idle" /\ pk = 0 /\ pbuild = "release"

\* No heatmap, random_dims, best_elements_full or proposed run.
IdleMore == IdleHeatmap /\ IdleRandom /\ IdleFull /\ IdleProposed

\* No best_elements_greedy run.
IdleGreedy ==
    /\ samples = <<>> /\ amount_dim = 0
    /\ gproc = "idle" /\ fixed = <<>> /\ gi = 0 /\ printed = 0 - 1

\* ------------------------------------------------------- misc.rs, Result

Dist == 0..MaxDist

\* Thresholds ConfusionMatrix::new is called with: every distance value and
\* one value below and one above all of them.
Thr == (0 - 1)..(MaxDist + 1)

Range(s) == {s[i] : i \in DOMAIN s}

\* A bug variant of CountLe: a distance equal to the threshold is not counted.
RECURSIVE CountLt(_, _)
CountLt(s, threshold) ==
    IF s = <<>> THEN 0
    ELSE (IF Head(s) < threshold THEN 1 ELSE 0) + CountLt(Tail(s), threshold)

\* iter().filter(|x| **x <= threshold).count()
RECURSIVE CountLeIter(_, _)
CountLeIter(s, threshold) ==
    IF s = <<>> THEN 0
    ELSE (IF Head(s) <= threshold THEN 1 ELSE 0) + CountLeIter(Tail(s), threshold)

CountLe(s, threshold) == CountLeIter(s, threshold)

\* iter().filter(|x| **x > threshold).count()
RECURSIVE CountGt(_, _)
CountGt(s, threshold) ==
    IF s = <<>> THEN 0
    ELSE (IF Head(s) > threshold THEN 1 ELSE 0) + CountGt(Tail(s), threshold)

ConfusionMatrixNew(threshold, s, d) ==
    LET tp  == CountLe(s, threshold)
        fne == Len(s) - tp
        tn  == CountGt(d, threshold)
        fp  == Len(d) - tn
    IN  [tp |-> tp, fne |-> fne, tn |-> tn, fp |-> fp]

amount_false(cm) == cm.fne + cm.fp

\* Result::amount_false
ResultAmountFalse(threshold, s, d) == amount_false(ConfusionMatrixNew(threshold, s, d))

\* Insertion of x into an ascending sequence, after the elements equal to it
\* (sort_by is stable).
RECURSIVE InsertSorted(_, _)
InsertSorted(x, s) ==
    IF s = <<>> THEN <<x>>
    ELSE IF x < Head(s) THEN <<x>> \o s
    ELSE <<Head(s)>> \o InsertSorted(x, Tail(s))

RECURSIVE SortAsc(_)
SortAsc(s) ==
    IF s = <<>> THEN <<>>
    ELSE InsertSorted(s[Len(s)], SortAsc(SubSeq(s, 1, Len(s) - 1)))

\* A bug variant of Thresholds: the chain is left unsorted.
ThresholdsUnsorted(s, d) == s \o d

\* same.chain(diff).collect(), then sort_by(partial_cmp)
Thresholds(s, d) == SortAsc(s \o d)

\* A bug variant of MinByKeep: the fold keeps the maximum.
MinByKeepMax(accFalse, nextFalse) == ~(accFalse < nextFalse)

\* A bug variant of MinByKeep: among equal elements the last one is kept.
MinByKeepLast(accFalse, nextFalse) == accFalse < nextFalse

\* The comparison Iterator::min_by folds with: the later element replaces the
\* running minimum only when the running minimum compares Greater.
MinByKeep(accFalse, nextFalse) == ~(accFalse > nextFalse)

\* Iterator::min_by over the thresholds, keyed by amount_false: a left fold
\* from the first element.
RECURSIVE MinByFold(_, _, _, _)
MinByFold(acc, rest, s, d) ==
    IF rest = <<>> THEN acc
    ELSE IF MinByKeep(ResultAmountFalse(acc, s, d), ResultAmountFalse(Head(rest), s, d))
         THEN MinByFold(acc, Tail(rest), s, d)
         ELSE MinByFold(Head(rest), Tail(rest), s, d)

\* The best threshold; only evaluated for a non-empty candidate list (on an
\* empty one min_by yields None and unwrap panics).
BestThreshold(s, d) ==
    LET ths == Thresholds(s, d)
    IN  MinByFold(Head(ths), Tail(ths), s, d)

NoRet == [op |-> "none"]

Panic == [op |-> "panic"]

get_confusion_matrix(s, d) ==
    IF Thresholds(s, d) = <<>> THEN Panic
    ELSE LET best == BestThreshold(s, d)
         IN  [op |-> "get_confusion_matrix", threshold |-> best,
              cm |-> ConfusionMatrixNew(best, s, d)]

calc_return_false(s, d) ==
    IF Thresholds(s, d) = <<>> THEN Panic
    ELSE LET best == BestThreshold(s, d)
             confusion_matrix == ConfusionMatrixNew(best, s, d)
         IN  [op |-> "calc_return_false",
              value |-> confusion_matrix.fne + confusion_matrix.fp]

\* A bug variant of F32Div: a zero denominator panics, as the division of
\* two integers does.
F32DivChecked(n, d) ==
    IF d = 0 THEN [kind |-> "panic", num |-> n, den |-> 0]
    ELSE [kind |-> "num", num |-> n, den |-> d]

\* An f32 quotient n / d of two integral values: NaN for 0 / 0, an infinity
\* for a non-zero value over 0, and otherwise the quotient, kept as the
\* fraction num / den. The division never panics.
F32Div(n, d) ==
    IF d = 0
    THEN IF n = 0 THEN [kind |-> "NaN", num |-> 0, den |-> 0]
         ELSE [kind |-> "inf", num |-> n, den |-> 0]
    ELSE [kind |-> "num", num |-> n, den |-> d]

\* ConfusionMatrix::false_discovery_rate
false_discovery_rate(cm) == F32Div(cm.fp, cm.fp + cm.tp)

\* ConfusionMatrix::false_omission_rate
false_omission_rate(cm) == F32Div(cm.fne, cm.fne + cm.tn)

\* Result::calc_rel: "{best_threshold};{fdr};{for}", or Panic.
calc_rel(s, d) ==
    LET r == get_confusion_matrix(s, d) IN
    IF r = Panic THEN Panic
    ELSE [op |-> "calc_rel", threshold |-> r.threshold,
          fdr |-> false_discovery_rate(r.cm),
          fomr |-> false_omission_rate(r.cm)]

\* --------------------------------------------- actions on a Result<T>

InitResult == same = <<>> /\ diff = <<>> /\ ret = NoRet

\* Result::add_same, as the evaluation loops call it: while filling.
AddSame(D, n) ==
    /\ ret = NoRet
    /\ Len(same) < n
    /\ \E dist \in D : same' = Append(same, dist)
    /\ UNCHANGED <<diff, ret, cacheVars, greedyVars, moreVars>>

\* Result::add_diff
AddDiff(D, n) ==
    /\ ret = NoRet
    /\ Len(diff) < n
    /\ \E dist \in D : diff' = Append(diff, dist)
    /\ UNCHANGED <<same, ret, cacheVars, greedyVars, moreVars>>

\* ConfusionMatrix::new(threshold, &self.same, &self.diff)
CallConfusionMatrix(T) ==
    /\ \E threshold \in T :
          ret' = [op |-> "ConfusionMatrix", threshold |-> threshold,
                  cm |-> ConfusionMatrixNew(threshold, same, diff)]
    /\ UNCHANGED <<same, diff, cacheVars, greedyVars, moreVars>>

CallGetConfusionMatrix ==
    /\ ret' = get_confusion_matrix(same, diff)
    /\ UNCHANGED <<same, diff, cacheVars, greedyVars, moreVars>>

CallCalcReturnFalse ==
    /\ ret' = calc_return_false(same, diff)
    /\ UNCHANGED <<same, diff, cacheVars, greedyVars, moreVars>>

\* The two rates of ConfusionMatrix::new(threshold, &self.same, &self.diff)
CallRates(T) ==
    /\ \E threshold \in T :
          LET cm == ConfusionMatrixNew(threshold, same, diff) IN
          ret' = [op |-> "rates", threshold |-> threshold,
                  fdr |-> false_discovery_rate(cm),
                  fomr |-> false_omission_rate(cm)]
    /\ UNCHANGED <<same, diff, cacheVars, greedyVars, moreVars>>

CallCalcRel ==
    /\ ret' = calc_rel(same, diff)
    /\ UNCHANGED <<same, diff, cacheVars, greedyVars, moreVars>>

\* ------------------------------------------------------------ arcface.rs

Images == 1..NumImages

\* Centre of the 250x250 image the nose landmark is compared with.
Centre == 125

Abs(x) == IF x < 0 THEN 0 - x ELSE x

Nose(x, y) == [x |-> x, y |-> y]

\* What img_read and Retinaface::inference yield for an image: an Err, no
\* face, a far face then a centred one, two faces equally far from the centre.
Detections ==
    { [ok |-> FALSE, res |-> <<>>],
      [ok |-> TRUE, res |-> <<>>],
      [ok |-> TRUE, res |-> <<Nose(100, 125), Nose(125, 125)>>],
      [ok |-> TRUE, res |-> <<Nose(100, 125), Nose(125, 150)>>] }

\* (125. - nose.x).abs() + (125. - nose.y).abs()
NoseDist(a) == Abs(Centre - a.x) + Abs(Centre - a.y)

\* enumerate().min_by(total_cmp).map(index): the first index of the least
\* distance, folded from index 1 (the sequence is 1-based here).
RECURSIVE MinIndexFold(_, _, _)
MinIndexFold(res, best, k) ==
    IF k > Len(res) THEN best
    ELSE IF NoseDist(res[best]) > NoseDist(res[k])
         THEN MinIndexFold(res, k, k + 1)
         ELSE MinIndexFold(res, best, k + 1)

idx_most_centered_face(res) == MinIndexFold(res, 1, 2)

\* Warp::perform and ArcFace::calc_emb: a fixed function of the image and of
\* the face chosen in it; the vector stands for the Vec<f32>.
CalcEmb(filename, idx) == <<filename, idx>>

Unreadable == [kind |-> "unreadable"]

Malformed == [kind |-> "malformed"]

Json(entries) == [kind |-> "json", entries |-> entries]

EmptyMap == <<>>

\* HashMap::insert
Insert(m, k, v) == [x \in DOMAIN m \cup {k} |-> IF x = k THEN v ELSE m[x]]

\* The orders a HashMap iterates its keys in.
Orderings(S) == {s \in [1..Cardinality(S) -> S] : Range(s) = S}

\* serde_json::to_string(&self.emb): one "key": [numbers] member per entry,
\* in the map's iteration order.
to_string(m) == {Json([i \in DOMAIN o |-> <<o[i], m[o[i]]>>]) : o \in Orderings(DOMAIN m)}

\* serde_json::from_str into a HashMap: the members inserted one by one.
RECURSIVE MapOfEntries(_, _)
MapOfEntries(m, entries) ==
    IF entries = <<>> THEN m
    ELSE MapOfEntries(Insert(m, Head(entries)[1], Head(entries)[2]), Tail(entries))

from_str(data) ==
    IF data.kind = "json"
    THEN [ok |-> TRUE, map |-> MapOfEntries(EmptyMap, data.entries)]
    ELSE [ok |-> FALSE, map |-> EmptyMap]

\* A bug variant of LoadEmb: a malformed file is taken for an empty cache.
LoadEmbLenient(path, f) ==
    IF path = "none" \/ f.kind # "json" THEN [ok |-> TRUE, map |-> EmptyMap]
    ELSE from_str(f)

\* The first half of Recognition::new: the cache a process starts with.
\* read_to_string fails on a missing or unreadable file; "?" returns the
\* serde_json error of a readable one.
LoadEmb(path, f) ==
    IF path = "none" THEN [ok |-> TRUE, map |-> EmptyMap]
    ELSE IF f.kind = "unreadable" THEN [ok |-> TRUE, map |-> EmptyMap]
    ELSE from_str(f)

NoCall == [id |-> 0, hit |-> FALSE, inference |-> FALSE, stored |-> FALSE, wrote |-> FALSE]

NoPairs == [provider |-> "none"]

NoRun == [cache_path |-> "none", up |-> FALSE, emb |-> EmptyMap]

\* The cache files a first process may find.
InitialFiles ==
    {Unreadable, Malformed, Json(<<>>), Json(<< <<1, CalcEmb(1, 1)>> >>)}

IdleCache ==
    /\ det = [i \in Images |-> [ok |-> TRUE, res |-> <<>>]]
    /\ file = Unreadable
    /\ proc = "off" /\ err = "none" /\ cache_path = "none"
    /\ emb = EmptyMap
    /\ lastCall = NoCall /\ prevCall = NoCall
    /\ pairsRet = NoPairs
    /\ prevRun = NoRun

InitCache ==
    /\ det \in [Images -> Detections]
    /\ file \in InitialFiles
    /\ proc = "off" /\ err = "none" /\ cache_path = "none"
    /\ emb = EmptyMap
    /\ lastCall = NoCall /\ prevCall = NoCall
    /\ pairsRet = NoPairs
    /\ prevRun = NoRun

\* Recognition::new(path, models...)
New ==
    /\ proc = "off"
    /\ \E path \in {"none", "some"}, retinaface_ok \in BOOLEAN :
          LET loaded == LoadEmb(path, file) IN
          /\ cache_path' = path
          /\ IF ~loaded.ok
             THEN proc' = "failed" /\ err' = "DeserializeError" /\ emb' = EmptyMap
             ELSE IF ~retinaface_ok
             THEN proc' = "failed" /\ err' = "RetinafaceError" /\ emb' = EmptyMap
             ELSE proc' = "up" /\ err' = "none" /\ emb' = loaded.map
    /\ UNCHANGED <<det, file, lastCall, prevCall, pairsRet, prevRun, resultVars, greedyVars, moreVars>>

\* A bug variant of Add: the file is written before the entry is inserted.
AddWriteFirst(filename, e) ==
    /\ emb' = Insert(emb, filename, e)
    /\ IF cache_path = "some"
       THEN /\ file' \in to_string(emb)
            /\ proc' = proc
       ELSE UNCHANGED <<file, proc>>

\* Recognition::add: insert, then rewrite the whole file; a failed write
\* panics and leaves the old file or a truncated one.
Add(filename, e) ==
    /\ emb' = Insert(emb, filename, e)
    /\ IF cache_path = "some"
       THEN \/ /\ file' \in to_string(emb')
               /\ proc' = proc
            \/ /\ file' \in {file, Malformed}
               /\ proc' = "panicked"
       ELSE UNCHANGED <<file, proc>>

Called(filename, hit, inference, stored, wrote) ==
    /\ lastCall' = [id |-> filename, hit |-> hit, inference |-> inference,
                    stored |-> stored, wrote |-> wrote]
    /\ prevCall' = lastCall

\* A bug variant of contains_key: the cache is never consulted.
ContainsKeyNever(filename) == FALSE

\* self.emb.contains_key(filename)
ContainsKey(filename) == filename \in DOMAIN emb

\* A bug variant of Ignored: an empty embedding is cached for the image.
IgnoredStoresEmpty(filename) ==
    /\ Add(filename, <<>>)
    /\ Called(filename, FALSE, TRUE, FALSE, FALSE)

\* The else branch of cache_img: "Ignored ..., 0 faces found" is printed.
Ignored(filename) ==
    /\ Called(filename, FALSE, TRUE, FALSE, FALSE)
    /\ UNCHANGED <<emb, file, proc>>

\* Recognition::cache_img(filename)
CacheImg(filename) ==
    /\ proc = "up"
    /\ IF ContainsKey(filename)
       THEN /\ Called(filename, TRUE, FALSE, FALSE, FALSE)
            /\ UNCHANGED <<emb, file, proc>>
       ELSE IF ~det[filename].ok
       THEN /\ Called(filename, FALSE, TRUE, FALSE, FALSE)
            /\ proc' = "panicked"
            /\ UNCHANGED <<emb, file>>
       ELSE IF det[filename].res # <<>>
       THEN /\ Add(filename, CalcEmb(filename, idx_most_centered_face(det[filename].res)))
            /\ Called(filename, FALSE, TRUE, TRUE, cache_path = "some")
       ELSE Ignored(filename)
    /\ pairsRet' = NoPairs
    /\ UNCHANGED <<det, err, cache_path, prevRun, resultVars, greedyVars, moreVars>>

\* Recognition::get
Get(filename) == IF filename \in DOMAIN emb THEN <<emb[filename]>> ELSE <<>>

\* The process ends; the next one starts from the file it left.
Exit ==
    /\ proc # "off"
    /\ prevRun' = [cache_path |-> cache_path, up |-> proc = "up", emb |-> emb]
    /\ proc' = "off" /\ err' = "none" /\ cache_path' = "none"
    /\ emb' = EmptyMap
    /\ lastCall' = NoCall /\ prevCall' = NoCall
    /\ pairsRet' = NoPairs
    /\ UNCHANGED <<det, file, resultVars, greedyVars, moreVars>>

\* ----------------------------------------------------- lfw.rs, cplfw.rs

\* The pair file: pair k is (image k, the next image), labelled same person
\* for odd k.
Pairs == [k \in Images |-> <<k % 2 = 1, k, (k % NumImages) + 1>>]

\* The filter_map of Cplfw::embeddings: Some only if both images are cached.
CplfwKeep(p) == Get(p[2]) # <<>> /\ Get(p[3]) # <<>>

\* (same_person, emb1.clone(), emb2.clone())
Sample(p) == <<p[1], emb[p[2]], emb[p[3]]>>

RECURSIVE FilterMapPairs(_)
FilterMapPairs(ps) ==
    IF ps = <<>> THEN <<>>
    ELSE (IF CplfwKeep(Head(ps)) THEN <<Sample(Head(ps))>> ELSE <<>>)
             \o FilterMapPairs(Tail(ps))

\* Cplfw::embeddings
CplfwEmbeddings ==
    /\ proc = "up"
    /\ pairsRet' = [provider |-> "cplfw", panic |-> FALSE,
                    samples |-> FilterMapPairs(Pairs)]
    /\ UNCHANGED <<det, file, proc, err, cache_path, emb, lastCall, prevCall,
                   prevRun, resultVars, greedyVars, moreVars>>

\* Lfw::embeddings: rec.get(path).unwrap() panics on the first image that is
\* not cached.
LfwEmbeddings ==
    /\ proc = "up"
    /\ IF \E k \in DOMAIN Pairs : Get(Pairs[k][2]) = <<>> \/ Get(Pairs[k][3]) = <<>>
       THEN /\ pairsRet' = [provider |-> "lfw", panic |-> TRUE, samples |-> <<>>]
            /\ proc' = "panicked"
       ELSE /\ pairsRet' = [provider |-> "lfw", panic |-> FALSE,
                            samples |-> [k \in DOMAIN Pairs |-> Sample(Pairs[k])]]
            /\ proc' = proc
    /\ UNCHANGED <<det, file, err, cache_path, emb, lastCall, prevCall,
                   prevRun, resultVars, greedyVars, moreVars>>

NextCache ==
    \/ New
    \/ \E filename \in Images : CacheImg(filename)
    \/ CplfwEmbeddings
    \/ LfwEmbeddings
    \/ Exit

InitCacheSpec == InitResult /\ InitCache /\ IdleGreedy /\ IdleMore

SpecCache == InitCacheSpec /\ [][NextCache]_vars

\* ----------------------------------------- main.rs, best_elements_greedy

\* The initial best error of a step.
BestInit == 999999999

\* The coordinates of the embeddings of the model.
Coords == {0, 1}

Embeddings == [1..EmbLen -> Coords]

\* The lists data.embeddings(rec) may return: (same_person, emb1, emb2), the
\* second embedding of every pair being the all-b vector.
SampleLists ==
    UNION {[1..NumSamples -> BOOLEAN \X Embeddings \X {[k \in 1..EmbLen |-> b]}] :
               b \in Coords}

\* for index in &perm { dist += (emb1[index] - emb2[index]) * (...) };
\* indices are 0-based in the program.
RECURSIVE DistOver(_, _, _)
DistOver(perm, emb1, emb2) ==
    IF perm = <<>> THEN 0
    ELSE (emb1[Head(perm) + 1] - emb2[Head(perm) + 1])
             * (emb1[Head(perm) + 1] - emb2[Head(perm) + 1])
         + DistOver(Tail(perm), emb1, emb2)

\* The Result the loop over data.embeddings(rec) fills for perm.
RECURSIVE DistancesOf(_, _, _)
DistancesOf(perm, ss, label) ==
    IF ss = <<>> THEN <<>>
    ELSE (IF Head(ss)[1] = label
          THEN <<DistOver(perm, Head(ss)[2], Head(ss)[3])>> ELSE <<>>)
         \o DistancesOf(perm, Tail(ss), label)

\* Indexing an embedding out of its bounds panics (only when there is a
\* sample to index).
IndexPanics(perm, ss) == ss # <<>> /\ \E k \in DOMAIN perm : perm[k] >= EmbLen

\* result.calc_return_false() for the subset perm, or Panic.
SubsetFalse(perm, ss) ==
    IF IndexPanics(perm, ss) THEN Panic
    ELSE calc_return_false(DistancesOf(perm, ss, TRUE), DistancesOf(perm, ss, FALSE))

RECURSIVE AllFrom(_, _)
AllFrom(x, n) == IF x >= n THEN <<>> ELSE <<x>> \o AllFrom(x + 1, n)

\* A bug variant of ToPotentiallyAdd: the indices already fixed are kept.
ToPotentiallyAddAll(fx, n) == AllFrom(0, n)

\* (0..amount_dim).collect(), then retain(|&x| !fixed.contains(&x))
ToPotentiallyAdd(fx, n) == SelectSeq(AllFrom(0, n), LAMBDA x : x \notin Range(fx))

\* A bug variant of Better: a candidate as good as the best replaces it.
BetterOrEqual(value, best) == value <= best[2]

\* result.calc_return_false() < best.1
Better(value, best) == value < best[2]

\* The loop over to_potentially_add: best is (index, error), or Panic once
\* an evaluation panicked.
RECURSIVE InnerLoop(_, _, _, _)
InnerLoop(best, cands, fx, ss) ==
    IF cands = <<>> THEN [panic |-> FALSE, best |-> best]
    ELSE LET r == SubsetFalse(Append(fx, Head(cands)), ss) IN
         IF r = Panic THEN [panic |-> TRUE, best |-> best]
         ELSE IF Better(r.value, best)
              THEN InnerLoop(<<Head(cands), r.value>>, Tail(cands), fx, ss)
              ELSE InnerLoop(best, Tail(cands), fx, ss)

InitGreedy ==
    /\ samples \in SampleLists \cup {<<>>}
    /\ amount_dim \in 0..(EmbLen + 1)
    /\ gproc = "idle" /\ fixed = <<>> /\ gi = 0 /\ printed = 0 - 1

\* best_elements_greedy is entered: fixed = Vec::new(), i = 1.
GreedyStart ==
    /\ gproc = "idle"
    /\ gproc' = "run" /\ fixed' = <<>> /\ gi' = 1
    /\ UNCHANGED <<samples, amount_dim, printed, resultVars, cacheVars, moreVars>>

\* One iteration of the loop over i.
GreedyStep ==
    /\ gproc = "run" /\ gi < amount_dim + 1
    /\ LET r == InnerLoop(<<0, BestInit>>, ToPotentiallyAdd(fixed, amount_dim),
                          fixed, samples)
       IN  IF r.panic
           THEN gproc' = "panicked" /\ UNCHANGED <<fixed, gi, printed>>
           ELSE /\ fixed' = Append(fixed, r.best[1])
                /\ printed' = r.best[2]
                /\ gi' = gi + 1
                /\ gproc' = gproc
    /\ UNCHANGED <<samples, amount_dim, resultVars, cacheVars, moreVars>>

\* The loop over i ends and the function returns.
GreedyReturn ==
    /\ gproc = "run" /\ ~(gi < amount_dim + 1)
    /\ gproc' = "done"
    /\ UNCHANGED <<samples, amount_dim, fixed, gi, printed, resultVars, cacheVars, moreVars>>

NextGreedy == GreedyStart \/ GreedyStep \/ GreedyReturn

InitGreedySpec == InitResult /\ IdleCache /\ InitGreedy /\ IdleMore

SpecGreedy == InitGreedySpec /\ [][NextGreedy]_vars

Init == InitResult /\ IdleCache /\ IdleGreedy /\ IdleMore

\* ---------------------------------------------------------- main.rs, heatmap

\* A bug variant of Impact: same-person pairs add, the others subtract.
ImpactSwapped(same_person, acc, cur_impact) ==
    IF same_person THEN acc + cur_impact ELSE acc - cur_impact

\* match same_person { true => ... -= cur_impact, false => ... += cur_impact }
Impact(same_person, acc, cur_impact) ==
    IF same_person THEN acc - cur_impact ELSE acc + cur_impact

\* The loop over data.embeddings(rec); position index + 1 of acc is
\* impact_index[index].
RECURSIVE Accumulate(_, _)
Accumulate(acc, ss) ==
    IF ss = <<>> THEN acc
    ELSE Accumulate(
             [k \in DOMAIN acc |->
                 Impact(Head(ss)[1], acc[k],
                        (Head(ss)[2][k] - Head(ss)[3][k])
                            * (Head(ss)[2][k] - Head(ss)[3][k]))],
             Tail(ss))

\* impact_index.iter().min_by(partial_cmp): the first minimum is kept.
RECURSIVE MinFold(_, _)
MinFold(acc, s) ==
    IF s = <<>> THEN acc
    ELSE MinFold(IF Head(s) < acc THEN Head(s) ELSE acc, Tail(s))

\* impact_index.iter().max_by(partial_cmp): the last maximum is kept.
RECURSIVE MaxFold(_, _)
MaxFold(acc, s) ==
    IF s = <<>> THEN acc
    ELSE MaxFold(IF Head(s) >= acc THEN Head(s) ELSE acc, Tail(s))

\* The inputs of a strategy: the samples of the dataset and amount_dim.
Inputs == samples \in SampleLists \cup {<<>>} /\ amount_dim \in 0..(EmbLen + 1)

GreedyNotRun == gproc = "idle" /\ fixed = <<>> /\ gi = 0 /\ printed = 0 - 1

\* vec![0_f32; amount_dim] and the loop over the samples; emb1[index] panics
\* when amount_dim exceeds the length of the embeddings.
HeatmapAccumulate ==
    /\ hproc = "idle"
    /\ IF samples # <<>> /\ amount_dim > EmbLen
       THEN hproc' = "panicked" /\ UNCHANGED impact_index
       ELSE /\ impact_index' = Accumulate([k \in 1..amount_dim |-> 0], samples)
            /\ hproc' = "accumulated"
    /\ UNCHANGED <<rproc, rsize, rtrial, rlast, rcount, fproc, fi, freports,
                   pproc, pk, pbuild, resultVars, cacheVars, greedyVars>>

\* min and max of impact_index (unwrap panics on an empty vector), then
\* impact_index[i] = (impact_index[i] - min) / (max - min) and the output.
HeatmapNormalize ==
    /\ hproc = "accumulated"
    /\ IF impact_index = <<>>
       THEN hproc' = "panicked" /\ UNCHANGED impact_index
       ELSE LET min == MinFold(Head(impact_index), Tail(impact_index))
                max == MaxFold(Head(impact_index), Tail(impact_index))
            IN  /\ impact_index' =
                       [i \in DOMAIN impact_index |->
                           F32Div(impact_index[i] - min, max - min)]
                /\ hproc' = "done"
    /\ UNCHANGED <<rproc, rsize, rtrial, rlast, rcount, fproc, fi, freports,
                   pproc, pk, pbuild, resultVars, cacheVars, greedyVars>>

NextHeatmap == HeatmapAccumulate \/ HeatmapNormalize

InitHeatmapSpec ==
    InitResult /\ IdleCache /\ Inputs /\ GreedyNotRun /\ IdleMore

SpecHeatmap == InitHeatmapSpec /\ [][NextHeatmap]_vars

\* -------------------------------------- main.rs, random_dims, random_dims_full

\* for _ in 1..101
TrialsEnd == 101

\* Result::calc: "{best_threshold};{best_amount_fp};{best_amount_fn}", or Panic.
calc(s, d) ==
    LET r == get_confusion_matrix(s, d) IN
    IF r = Panic THEN Panic
    ELSE [op |-> "calc", threshold |-> r.threshold, fp |-> r.cm.fp, fne |-> r.cm.fne]

\* result.calc() for the subset indices, or Panic.
SubsetCalc(indices, ss) ==
    IF IndexPanics(indices, ss) THEN Panic
    ELSE calc(DistancesOf(indices, ss, TRUE), DistancesOf(indices, ss, FALSE))

\* What indices.shuffle(&mut rng) may leave in (0..512).collect(): any
\* arrangement of all the indices (the model has EmbLen of them).
Shuffles ==
    {p \in [1..EmbLen -> 0..(EmbLen - 1)] :
        \A j, k \in 1..EmbLen : j # k => p[j] # p[k]}

\* A bug variant of Prefix: the whole permutation is kept.
PrefixWhole(p, amount_dimensions) == p

\* indices[..amount_dimensions].to_vec()
Prefix(p, amount_dimensions) == SubSeq(p, 1, amount_dimensions)

\* The samples of the random sampling runs: none, or NumSamples pairs of
\* alternating labels, each of one embedding and the zero embedding.
RandomSampleLists ==
    {<<>>} \cup {ss \in SampleLists :
                    \A k \in DOMAIN ss :
                        /\ ss[k][1] = (k % 2 = 1)
                        /\ ss[k][2] = ss[1][2]
                        /\ ss[k][3] = [j \in 1..EmbLen |-> 0]}

NoLines == [size \in 0..(EmbLen + 1) |-> 0]

\* One trial of either function: shuffle, truncate, evaluate, print. The
\* slice panics when amount_dimensions exceeds the number of indices.
Trial(p, next_proc, next_size, next_trial) ==
    IF rsize > EmbLen
    THEN rproc' = "panicked" /\ UNCHANGED <<rsize, rtrial, rlast, rcount>>
    ELSE LET indices == Prefix(p, rsize)
             out == SubsetCalc(indices, samples)
         IN  IF out = Panic
             THEN rproc' = "panicked" /\ UNCHANGED <<rsize, rtrial, rlast, rcount>>
             ELSE /\ rlast' = [size |-> rsize, indices |-> indices, out |-> out]
                  /\ rcount' = [rcount EXCEPT ![rsize] = @ + 1]
                  /\ rproc' = next_proc /\ rsize' = next_size
                  /\ rtrial' = next_trial

\* random_dims is entered with amount_dimensions = amount_dim.
RandomDimsStart ==
    /\ rproc = "idle"
    /\ rproc' = "dims" /\ rsize' = amount_dim /\ rtrial' = 1
    /\ rcount' = NoLines /\ rlast' = rlast
    /\ UNCHANGED <<hproc, impact_index, fproc, fi, freports, pproc, pk, pbuild,
                   resultVars, cacheVars, greedyVars>>

\* One iteration of for _ in 1..101.
RandomDimsTrial ==
    /\ rproc = "dims" /\ rtrial < TrialsEnd
    /\ \E p \in Shuffles : Trial(p, rproc, rsize, rtrial + 1)
    /\ UNCHANGED <<hproc, impact_index, fproc, fi, freports, pproc, pk, pbuild,
                   resultVars, cacheVars, greedyVars>>

RandomDimsReturn ==
    /\ rproc = "dims" /\ ~(rtrial < TrialsEnd)
    /\ rproc' = "dims_done"
    /\ UNCHANGED <<rsize, rtrial, rlast, rcount, hproc, impact_index, fproc, fi,
                   freports, pproc, pk, pbuild, resultVars, cacheVars, greedyVars>>

\* random_dims_full is entered: (1..513).rev() starts at the full length.
RandomFullStart ==
    /\ rproc = "idle"
    /\ rproc' = "full" /\ rsize' = EmbLen /\ rtrial' = rtrial
    /\ rcount' = NoLines /\ rlast' = rlast
    /\ UNCHANGED <<hproc, impact_index, fproc, fi, freports, pproc, pk, pbuild,
                   resultVars, cacheVars, greedyVars>>

\* One iteration of for amount_dimensions in (1..513).rev().
RandomFullTrial ==
    /\ rproc = "full" /\ rsize >= 1
    /\ \E p \in Shuffles : Trial(p, rproc, rsize - 1, rtrial)
    /\ UNCHANGED <<hproc, impact_index, fproc, fi, freports, pproc, pk, pbuild,
                   resultVars, cacheVars, greedyVars>>

RandomFullReturn ==
    /\ rproc = "full" /\ ~(rsize >= 1)
    /\ rproc' = "full_done"
    /\ UNCHANGED <<rsize, rtrial, rlast, rcount, hproc, impact_index, fproc, fi,
                   freports, pproc, pk, pbuild, resultVars, cacheVars, greedyVars>>

NextRandom ==
    \/ RandomDimsStart \/ RandomDimsTrial \/ RandomDimsReturn
    \/ RandomFullStart \/ RandomFullTrial \/ RandomFullReturn

InitRandomSpec ==
    /\ InitResult /\ IdleCache /\ GreedyNotRun /\ IdleMore
    /\ samples \in RandomSampleLists /\ amount_dim \in 0..(EmbLen + 1)

SpecRandom == InitRandomSpec /\ [][NextRandom]_vars

\* ----------------------------------------------- main.rs, best_elements_full

\* A bug variant of Combinations: the combinations without the first
\* element come first.
RECURSIVE CombinationsLastFirst(_, _)
CombinationsLastFirst(s, k) ==
    IF k = 0 THEN <<<<>>>>
    ELSE IF Len(s) < k THEN <<>>
    ELSE LET with == CombinationsLastFirst(Tail(s), k - 1) IN
         CombinationsLastFirst(Tail(s), k)
             \o [j \in DOMAIN with |-> <<Head(s)>> \o with[j]]

\* possible_indices.iter().combinations(k): the k-element combinations of s
\* in lexicographic order of their positions.
RECURSIVE Combinations(_, _)
Combinations(s, k) ==
    IF k = 0 THEN <<<<>>>>
    ELSE IF Len(s) < k THEN <<>>
    ELSE LET with == Combinations(Tail(s), k - 1) IN
         [j \in DOMAIN with |-> <<Head(s)>> \o with[j]]
             \o Combinations(Tail(s), k)

\* The loop over the combinations: best is (perm, error); an evaluation
\* that panics ends the program.
RECURSIVE FullInnerLoop(_, _, _)
FullInnerLoop(best, perms, ss) ==
    IF perms = <<>> THEN [panic |-> FALSE, best |-> best]
    ELSE LET r == SubsetFalse(Head(perms), ss) IN
         IF r = Panic THEN [panic |-> TRUE, best |-> best]
         ELSE IF Better(r.value, best)
              THEN FullInnerLoop(<<Head(perms), r.value>>, Tail(perms), ss)
              ELSE FullInnerLoop(best, Tail(perms), ss)

\* best_elements_full is entered: possible_indices is filled, i = 0.
FullStart ==
    /\ fproc = "idle"
    /\ fproc' = "run" /\ fi' = 0 /\ freports' = <<>>
    /\ UNCHANGED <<hproc, impact_index, rproc, rsize, rtrial, rlast, rcount,
                   pproc, pk, pbuild, resultVars, cacheVars, greedyVars>>

\* One iteration of for i in 0..possible_indices.len(), with its line
\* "Best perm with {i} elements: ...".
FullStep ==
    /\ fproc = "run" /\ fi < Len(AllFrom(0, amount_dim))
    /\ LET r == FullInnerLoop(<<(<<0>>), BestInit>>,
                              Combinations(AllFrom(0, amount_dim), fi), samples)
       IN  IF r.panic
           THEN fproc' = "panicked" /\ UNCHANGED <<fi, freports>>
           ELSE /\ freports' = Append(freports,
                        [size |-> fi, perm |-> r.best[1], error |-> r.best[2]])
                /\ fi' = fi + 1
                /\ fproc' = fproc
    /\ UNCHANGED <<hproc, impact_index, rproc, rsize, rtrial, rlast, rcount,
                   pproc, pk, pbuild, resultVars, cacheVars, greedyVars>>

\* The loop over i ends and the function returns.
FullReturn ==
    /\ fproc = "run" /\ ~(fi < Len(AllFrom(0, amount_dim)))
    /\ fproc' = "done"
    /\ UNCHANGED <<fi, freports, hproc, impact_index, rproc, rsize, rtrial, rlast,
                   rcount, pproc, pk, pbuild, resultVars, cacheVars, greedyVars>>

NextFull == FullStart \/ FullStep \/ FullReturn

InitFullSpec ==
    InitResult /\ IdleCache /\ Inputs /\ GreedyNotRun /\ IdleMore

SpecFull == InitFullSpec /\ [][NextFull]_vars

\* --------------------------------------------------------- main.rs, proposed

\* The coordinates of the embeddings proposed is run on, in quarters:
\* -2.0, -1.0, 0.25 and 1.0.
QuarterCoords == {0 - 8, 0 - 4, 1, 4}

\* The value of an f32 cast to i8: truncated towards zero and saturated.
AsI8(num, den) ==
    LET trunc == IF num >= 0 THEN num \div den ELSE 0 - ((0 - num) \div den)
    IN  IF trunc > 127 THEN 127 ELSE IF trunc < 0 - 128 THEN 0 - 128 ELSE trunc

\* (x * 70.) as i8, for the coordinate x = quarters / 4
Quantize(quarters) == AsI8(quarters * 70, 4)

\* The i8 value an i8 subtraction wraps to without overflow checks.
WrapI8(v) == ((v + 128) % 256) - 128

\* emb1[index] - emb2[index] on two i8 values: the difference when it fits
\* an i8; otherwise a panic with overflow checks (debug) and the wrapped
\* difference without them (release).
SubI8(a, b, build) ==
    IF a - b \in (0 - 128)..127 THEN [panic |-> FALSE, value |-> a - b]
    ELSE IF build = "debug" THEN [panic |-> TRUE, value |-> 0]
    ELSE [panic |-> FALSE, value |-> WrapI8(a - b)]

\* The fixed index list of proposed, scaled to the embeddings of the model:
\* ascending, distinct, and not all the indices.
ProposedIndices == AllFrom(1, EmbLen)

\* The loop over the index list: dist += (emb1[index] - emb2[index]) as i32
\* * (emb1[index] - emb2[index]) as i32.
RECURSIVE ProposedDist(_, _, _, _, _)
ProposedDist(dist, indices, emb1, emb2, build) ==
    IF indices = <<>> THEN [panic |-> FALSE, value |-> dist]
    ELSE LET sub == SubI8(emb1[Head(indices) + 1], emb2[Head(indices) + 1], build)
         IN  IF sub.panic THEN [panic |-> TRUE, value |-> dist]
             ELSE ProposedDist(dist + sub.value * sub.value, Tail(indices),
                               emb1, emb2, build)

\* The lists data.embeddings(rec) may return to proposed: every embedding
\* has one value in all its coordinates.
ProposedSampleLists ==
    [1..NumSamples ->
        BOOLEAN \X {[k \in 1..EmbLen |-> a] : a \in QuarterCoords}
                \X {[k \in 1..EmbLen |-> b] : b \in QuarterCoords}]

\* proposed is entered: result = Result::new().
ProposedStart ==
    /\ pproc = "idle"
    /\ pproc' = "run" /\ pk' = 0 /\ same' = <<>> /\ diff' = <<>>
    /\ UNCHANGED <<ret, pbuild, hproc, impact_index, rproc, rsize, rtrial, rlast,
                   rcount, fproc, fi, freports, cacheVars, greedyVars>>

\* One iteration of the loop over data.embeddings(rec).
ProposedPair ==
    /\ pproc = "run" /\ pk < Len(samples)
    /\ LET same_person == samples[pk + 1][1]
           emb1 == [k \in 1..EmbLen |-> Quantize(samples[pk + 1][2][k])]
           emb2 == [k \in 1..EmbLen |-> Quantize(samples[pk + 1][3][k])]
           r == ProposedDist(0, ProposedIndices, emb1, emb2, pbuild)
       IN  IF r.panic
           THEN pproc' = "panicked" /\ UNCHANGED <<pk, same, diff>>
           ELSE /\ pk' = pk + 1 /\ pproc' = pproc
                /\ IF same_person
                   THEN same' = Append(same, r.value) /\ diff' = diff
                   ELSE diff' = Append(diff, r.value) /\ same' = same
    /\ UNCHANGED <<ret, pbuild, hproc, impact_index, rproc, rsize, rtrial, rlast,
                   rcount, fproc, fi, freports, cacheVars, greedyVars>>

\* println!("{}", result.calc()) after the last sample.
ProposedCalc ==
    /\ pproc = "run" /\ ~(pk < Len(samples))
    /\ ret' = calc(same, diff)
    /\ pproc' = IF calc(same, diff) = Panic THEN "panicked" ELSE "done"
    /\ UNCHANGED <<same, diff, pk, pbuild, hproc, impact_index, rproc, rsize,
                   rtrial, rlast, rcount, fproc, fi, freports, cacheVars,
                   greedyVars>>

NextProposed == ProposedStart \/ ProposedPair \/ ProposedCalc

InitProposedSpec ==
    /\ InitResult /\ IdleCache /\ GreedyNotRun
    /\ IdleHeatmap /\ IdleRandom /\ IdleFull
    /\ samples \in ProposedSampleLists \cup {<<>>} /\ amount_dim = 0
    /\ pproc = "idle" /\ pk = 0 /\ pbuild \in {"debug", "release"}

SpecProposed == InitProposedSpec /\ [][NextProposed]_vars

\* ----------------------------------------------------------- greedy claims

\* C10: in best_elements_greedy fixed never shrinks and is never reordered:
\* a step appends exactly one index to it, after step i it has i elements,
\* and its elements are pairwise distinct indices in [0, amount_dim).
C10_FixedGrows ==
    /\ [](gproc \in {"run", "done"} =>
            /\ Len(fixed) = gi - 1
            /\ \A k \in DOMAIN fixed : fixed[k] \in 0..(amount_dim - 1)
            /\ \A j, k \in DOMAIN fixed : j # k => fixed[j] # fixed[k])
    /\ [][gproc = "run" =>
            /\ Len(fixed') >= Len(fixed)
            /\ SubSeq(fixed', 1, Len(fixed)) = fixed
            /\ gi' # gi => (gi' = gi + 1 /\ Len(fixed') = gi)]_vars

C10_Witness ==
    /\ gproc = "done" /\ amount_dim = EmbLen /\ Len(fixed) = EmbLen
    /\ fixed[1] # 0

\* ------------------------------------------------------------ cache claims

\* Two cache_img calls in a row on the same image, not cached before the
\* first of them.
TwiceInARow ==
    lastCall.id # 0 /\ prevCall.id = lastCall.id /\ ~prevCall.hit

\* C5 as stated: calling cache_img twice in a row on an image id not cached
\* before leaves exactly one stored embedding for it after exactly one
\* detection in total; the second call does nothing.
C5_IdempotentAsStated ==
    TwiceInARow =>
        /\ prevCall.inference /\ prevCall.stored
        /\ lastCall.hit /\ ~lastCall.inference /\ ~lastCall.stored
        /\ lastCall.id \in DOMAIN emb

\* C5 amended: when detection finds at least one face in the image, two
\* calls in a row leave exactly one stored embedding after one detection and
\* the second call does nothing; when it finds none, nothing is stored and
\* each of the two calls runs detection.
C5_Idempotent ==
    TwiceInARow =>
        IF det[lastCall.id].res # <<>>
        THEN /\ prevCall.inference /\ prevCall.stored
             /\ lastCall.hit /\ ~lastCall.inference
             /\ ~lastCall.stored /\ ~lastCall.wrote
             /\ lastCall.id \in DOMAIN emb
             /\ emb[lastCall.id] \in {CalcEmb(lastCall.id, k) : k \in DOMAIN det[lastCall.id].res}
        ELSE /\ prevCall.inference /\ ~prevCall.stored
             /\ lastCall.inference /\ ~lastCall.stored /\ ~lastCall.hit
             /\ lastCall.id \notin DOMAIN emb

C5_Witness ==
    /\ TwiceInARow
    /\ det[lastCall.id].res # <<>>
    /\ lastCall.hit /\ prevCall.stored
    /\ proc = "up"

\* C6: with a storage path configured, the file holds the whole in-memory
\* mapping after every successful insertion: what Recognition::new would load
\* from it is the mapping, and a process started on the file a process with
\* that path left has every key with its embedding.
C6_RoundTrip ==
    /\ (proc = "up" /\ cache_path = "some") =>
          /\ file.kind = "json" \/ (file.kind = "unreadable" /\ emb = EmptyMap)
          /\ LoadEmb("some", file) = [ok |-> TRUE, map |-> emb]
    /\ (proc = "up" /\ cache_path = "some" /\ lastCall = NoCall
            /\ prevRun.up /\ prevRun.cache_path = "some") =>
          /\ emb = prevRun.emb
          /\ \A k \in DOMAIN prevRun.emb : Get(k) = <<prevRun.emb[k]>>

\* A process reloaded what the one before inserted for every image.
C6_Witness ==
    /\ proc = "up" /\ cache_path = "some" /\ lastCall = NoCall
    /\ prevRun.up /\ prevRun.cache_path = "some"
    /\ DOMAIN emb = Images
    /\ \E k \in Images : Get(k) = <<CalcEmb(k, 2)>>

\* C7: Recognition::new with no path, or with a path whose file cannot be
\* read, never fails with DeserializeError and starts with an empty cache
\* (its only failure is the detector's RetinafaceError); with a path whose
\* file is readable and malformed it fails with DeserializeError.
C7_LoadOutcomes ==
    (proc \in {"up", "failed"} /\ lastCall = NoCall) =>
        /\ (cache_path = "none" \/ file.kind = "unreadable") =>
              /\ err \in {"none", "RetinafaceError"}
              /\ err = "none" <=> proc = "up"
              /\ emb = EmptyMap
        /\ (cache_path = "some" /\ file.kind = "malformed") =>
              proc = "failed" /\ err = "DeserializeError"
        /\ (cache_path = "some" /\ file.kind = "json") =>
              /\ err \in {"none", "RetinafaceError"}
              /\ proc = "up" => emb = MapOfEntries(EmptyMap, file.entries)

\* A process that found a malformed file, after one that found none.
C7_Witness ==
    /\ proc = "failed" /\ err = "DeserializeError" /\ file.kind = "malformed"
    /\ cache_path = "some"
    /\ prevRun.cache_path = "some" /\ prevRun.emb # EmptyMap

\* A process that found no readable file and started empty.
C7_WitnessMissing ==
    /\ proc = "up" /\ err = "none" /\ cache_path = "some" /\ lastCall = NoCall
    /\ file.kind = "unreadable" /\ emb = EmptyMap

\* C8: a cache_img call on an image that is not cached and in which detection
\* finds no face returns normally and leaves the mapping and the file as they
\* were.
C8_ZeroFacesSkip ==
    [][\A f \in Images :
          (CacheImg(f) /\ f \notin DOMAIN emb /\ det[f].ok /\ det[f].res = <<>>)
              => (emb' = emb /\ file' = file /\ proc' = "up")]_vars

C8_Witness ==
    /\ lastCall.id # 0 /\ ~lastCall.hit /\ lastCall.inference /\ ~lastCall.stored
    /\ det[lastCall.id].ok /\ det[lastCall.id].res = <<>>
    /\ proc = "up" /\ cache_path = "some" /\ file.kind = "json"

\* The pairs of the pair file whose two images are cached, in order.
RECURSIVE CachedPairs(_)
CachedPairs(ps) ==
    IF ps = <<>> THEN <<>>
    ELSE (IF Head(ps)[2] \in DOMAIN emb /\ Head(ps)[3] \in DOMAIN emb
          THEN <<Head(ps)>> ELSE <<>>) \o CachedPairs(Tail(ps))

\* C9: Dataset::embeddings, of either provider, never fails on an image
\* missing from the cache and returns exactly the pairs whose two images are
\* cached.
C9_PairsFiltered ==
    pairsRet.provider # "none" =>
        /\ ~pairsRet.panic
        /\ pairsRet.samples =
              [k \in DOMAIN CachedPairs(Pairs) |->
                  <<CachedPairs(Pairs)[k][1], emb[CachedPairs(Pairs)[k][2]],
                    emb[CachedPairs(Pairs)[k][3]]>>]

\* C9 for the CPLFW provider alone.
C9_CplfwFiltered ==
    pairsRet.provider = "cplfw" => C9_PairsFiltered

Next ==
    \/ AddSame(Dist, MaxLen)
    \/ AddDiff(Dist, MaxLen)
    \/ CallConfusionMatrix(Thr)
    \/ CallGetConfusionMatrix
    \/ CallCalcReturnFalse
    \/ CallRates(Thr)
    \/ CallCalcRel

Spec == Init /\ [][Next]_vars

\* ---------------------------------------- the worked example of the spec

ExampleSame == <<1, 4, 9>>

ExampleDiff == <<2, 5, 8>>

ExampleThr == Range(ExampleSame) \cup Range(ExampleDiff)

NextExample ==
    \/ AddSame(Range(ExampleSame), Len(ExampleSame))
    \/ AddDiff(Range(ExampleDiff), Len(ExampleDiff))
    \/ CallConfusionMatrix(ExampleThr)
    \/ CallGetConfusionMatrix
    \/ CallCalcReturnFalse

SpecExample == Init /\ [][NextExample]_vars

\* ------------------------------------------------ threshold search claims

\* The observed-distance union of the Result.
Observed == Range(same) \cup Range(diff)

\* fn + fp at threshold t, counted directly on the two collections.
FalseAt(t) ==
    Cardinality({i \in DOMAIN same : same[i] > t})
        + Cardinality({i \in DOMAIN diff : diff[i] <= t})

\* C1: on a non-empty pair of collections get_confusion_matrix and
\* calc_return_false do not panic; the threshold returned is an observed
\* distance, and fn+fp at the returned threshold (the matrix returned, the
\* count returned) is <= fn+fp at every threshold of the observed union.
C1_BestAmongObserved ==
    /\ ret = Panic => Observed = {}
    /\ ret.op = "get_confusion_matrix" =>
          /\ ret.threshold \in Observed
          /\ amount_false(ret.cm) = FalseAt(ret.threshold)
          /\ \A t \in Observed : amount_false(ret.cm) <= FalseAt(t)
    /\ ret.op = "calc_return_false" =>
          /\ \E t \in Observed : ret.value = FalseAt(t)
          /\ \A t \in Observed : ret.value <= FalseAt(t)

C1_Witness ==
    /\ ret.op = "get_confusion_matrix"
    /\ same # <<>> /\ diff # <<>>
    /\ \E t \in Observed : amount_false(ret.cm) < FalseAt(t)

\* C2: no threshold at all, inside or outside the observed union, gives a
\* strictly smaller fn+fp than the threshold get_confusion_matrix returns.
C2_OptimalOverAllThresholds ==
    ret.op = "get_confusion_matrix" =>
        \A t \in Thr : amount_false(ret.cm) <= FalseAt(t)

\* C3 as stated: for same [1,4,9] and diff [2,5,8] the candidates are
\* 1,2,4,5,8,9, the matrix at T=4 is tp=2 fn=1 tn=1 fp=2 (fn+fp = 3), 3 is the
\* minimum over the candidates and T=4 is the threshold reported.
C3_ExampleAsStated ==
    (same = ExampleSame /\ diff = ExampleDiff) =>
        /\ Thresholds(same, diff) = <<1, 2, 4, 5, 8, 9>>
        /\ (ret.op = "ConfusionMatrix" /\ ret.threshold = 4) =>
              ret.cm = [tp |-> 2, fne |-> 1, tn |-> 1, fp |-> 2]
        /\ ret.op = "get_confusion_matrix" =>
              ret.threshold = 4 /\ amount_false(ret.cm) = 3
        /\ ret.op = "calc_return_false" => ret.value = 3

\* C3 amended: for same [1,4,9] and diff [2,5,8] the candidates are
\* 1,2,4,5,8,9, the matrix at T=4 is tp=2 fn=1 tn=2 fp=1 (fn+fp = 2), 2 is the
\* minimum of fn+fp over the candidates, it is attained at T=1 and at T=4,
\* and T=1, the first of them, is the threshold reported.
C3_Example ==
    (same = ExampleSame /\ diff = ExampleDiff) =>
        /\ Thresholds(same, diff) = <<1, 2, 4, 5, 8, 9>>
        /\ (ret.op = "ConfusionMatrix" /\ ret.threshold = 4) =>
              ret.cm = [tp |-> 2, fne |-> 1, tn |-> 2, fp |-> 1]
        /\ (ret.op = "ConfusionMatrix" /\ ret.threshold \in {1, 4}) =>
              amount_false(ret.cm) = 2
        /\ ret.op = "ConfusionMatrix" => amount_false(ret.cm) >= 2
        /\ ret.op = "get_confusion_matrix" =>
              /\ ret.threshold = 1
              /\ ret.cm = [tp |-> 1, fne |-> 2, tn |-> 3, fp |-> 0]
        /\ ret.op = "calc_return_false" => ret.value = 2

C3_Witness ==
    /\ same = ExampleSame /\ diff = ExampleDiff
    /\ ret.op = "get_confusion_matrix"
    /\ ret.threshold = 1

\* C4: ConfusionMatrix::new(threshold, same, diff) has tp = the number of
\* same-distances <= threshold, fn = the number of same-distances above it,
\* tn = the number of diff-distances > threshold, fp = the number of
\* diff-distances <= threshold; so tp+fn = |same| and tn+fp = |diff|.
C4_ConfusionMatrixCounts ==
    ret.op = "ConfusionMatrix" =>
        LET t == ret.threshold IN
        /\ ret.cm.tp  = Cardinality({i \in DOMAIN same : same[i] <= t})
        /\ ret.cm.fne = Cardinality({i \in DOMAIN same : ~(same[i] <= t)})
        /\ ret.cm.tn  = Cardinality({i \in DOMAIN diff : diff[i] > t})
        /\ ret.cm.fp  = Cardinality({i \in DOMAIN diff : ~(diff[i] > t)})
        /\ ret.cm.tp + ret.cm.fne = Len(same)
        /\ ret.cm.tn + ret.cm.fp = Len(diff)

\* A distance equal to the threshold is in both collections: it counts as
\* "same person" in each (tp and fp).
C4_Witness ==
    /\ ret.op = "ConfusionMatrix"
    /\ ret.threshold \in Range(same) \cap Range(diff)
    /\ ret.cm.tp > 0 /\ ret.cm.fne > 0 /\ ret.cm.tn > 0 /\ ret.cm.fp > 0

\* ---------------------------------------------------------- heatmap claims

\* The sum of (emb1[i] - emb2[i])^2 over the samples at the positions K.
RECURSIVE SumSq(_, _)
SumSq(K, i) ==
    IF K = {} THEN 0
    ELSE LET k == CHOOSE x \in K : TRUE
         IN  (samples[k][2][i + 1] - samples[k][3][i + 1])
                 * (samples[k][2][i + 1] - samples[k][3][i + 1])
             + SumSq(K \ {k}, i)

\* The raw score of dimension i: different-person pairs minus same-person
\* pairs.
RawScore(i) ==
    SumSq({k \in DOMAIN samples : ~samples[k][1]}, i)
        - SumSq({k \in DOMAIN samples : samples[k][1]}, i)

Dims == 0..(amount_dim - 1)

RawNotAllEqual == \E i, j \in Dims : RawScore(i) # RawScore(j)

InUnit(v) == v.kind = "num" /\ v.den > 0 /\ 0 <= v.num /\ v.num <= v.den

IsZero(v) == v.kind = "num" /\ v.num = 0

IsOne(v) == v.kind = "num" /\ v.num = v.den

\* C11: the raw score heatmap accumulates for dimension i is the sum of
\* (a[i] - b[i])^2 over the different-person pairs minus the same sum over
\* the same-person pairs; when the raw scores are not all identical, every
\* normalized output lies in [0, 1], a dimension of minimal raw score maps
\* to exactly 0 and a dimension of maximal raw score maps to exactly 1.
C11_HeatmapUnitRange ==
    /\ hproc = "accumulated" =>
          /\ Len(impact_index) = amount_dim
          /\ \A i \in Dims : impact_index[i + 1] = RawScore(i)
    /\ (hproc = "done" /\ RawNotAllEqual) =>
          /\ \A i \in Dims : InUnit(impact_index[i + 1])
          /\ \E i \in Dims :
                /\ IsZero(impact_index[i + 1])
                /\ \A j \in Dims : RawScore(i) <= RawScore(j)
          /\ \E i \in Dims :
                /\ IsOne(impact_index[i + 1])
                /\ \A j \in Dims : RawScore(i) >= RawScore(j)
          /\ \A i \in Dims :
                /\ IsZero(impact_index[i + 1]) =>
                      \A j \in Dims : RawScore(i) <= RawScore(j)
                /\ IsOne(impact_index[i + 1]) =>
                      \A j \in Dims : RawScore(i) >= RawScore(j)

\* A finished heatmap over all the dimensions whose best dimension has a
\* negative raw score.
C11_Witness ==
    /\ hproc = "done" /\ amount_dim = EmbLen /\ RawNotAllEqual
    /\ IsOne(impact_index[1]) /\ IsZero(impact_index[EmbLen])
    /\ RawScore(0) < 0

\* ---------------------------------------------------- random sampling claims

\* The trial lines printed per size.
TrialsPerSize == TrialsEnd - 1

\* A printed trial line: its subset has as many pairwise distinct indices of
\* the full range as its size says, and it carries the evaluation of that
\* subset alone.
LineAsIs(line) ==
    /\ Len(line.indices) = line.size
    /\ \A k \in DOMAIN line.indices : line.indices[k] \in 0..(EmbLen - 1)
    /\ \A j, k \in DOMAIN line.indices :
          j # k => line.indices[j] # line.indices[k]
    /\ line.out = calc(DistancesOf(line.indices, samples, TRUE),
                       DistancesOf(line.indices, samples, FALSE))

\* C12 as stated: random_dims reports 100 trials for the requested size and
\* random_dims_full reports 100 trials for each size.
C12_HundredTrialsPerSize ==
    /\ rproc = "dims_done" => rcount[amount_dim] = TrialsPerSize
    /\ rproc = "full_done" => \A k \in 1..EmbLen : rcount[k] = TrialsPerSize

\* C12, amended: random_dims reports 100 trials, all of the requested size;
\* random_dims_full reports exactly one trial for each size, from the full
\* length down to 1 in descending order; the subset of every trial is the
\* first k indices of a permutation of the full index range, and every
\* trial is reported as-is, with the evaluation of its own subset.
C12_RandomTrials ==
    /\ [](rproc = "dims_done" =>
            \A k \in DOMAIN rcount :
                rcount[k] = IF k = amount_dim THEN TrialsPerSize ELSE 0)
    /\ [](rproc = "full_done" =>
            \A k \in DOMAIN rcount :
                rcount[k] = IF k \in 1..EmbLen THEN 1 ELSE 0)
    /\ [](rlast # NoLine => LineAsIs(rlast))
    /\ [][(rproc = "dims" /\ rcount' # rcount) =>
            /\ rlast'.size = amount_dim
            /\ rcount' = [rcount EXCEPT ![amount_dim] = @ + 1]]_vars
    /\ [][(rproc = "full" /\ rcount' # rcount) =>
            /\ rlast'.size = IF rlast = NoLine THEN EmbLen ELSE rlast.size - 1
            /\ rcount' = [rcount EXCEPT ![rlast'.size] = @ + 1]]_vars

\* random_dims_full has returned after its last trial, of size 1, picked an
\* index other than the first.
C12_Witness ==
    /\ rproc = "full_done" /\ samples # <<>>
    /\ rlast.size = 1 /\ rlast.indices = <<EmbLen - 1>>
    /\ rcount[EmbLen] = 1

\* ------------------------------------------------- best_elements_full claims

\* C13: best_elements_full covers every subset size from 0 up to and
\* including amount_dim: once it has returned, it has reported one best
\* subset with its error for each of these sizes.
C13_EverySizeCovered ==
    fproc = "done" =>
        \A k \in 0..amount_dim :
            \E j \in DOMAIN freports :
                freports[j].size = k /\ Len(freports[j].perm) = k

\* The sizes reported are 0 .. amount_dim - 1, in this order.
C13_SizesBelowAmountDim ==
    /\ \A j \in DOMAIN freports : freports[j].size = j - 1
    /\ fproc = "done" => Len(freports) = amount_dim

\* The k-combinations of [0, amount_dim): the ascending index lists.
KCombinations(k) ==
    {c \in [1..k -> 0..(amount_dim - 1)] :
        \A j \in 1..(k - 1) : c[j] < c[j + 1]}

\* bestAmountFalse of the subset c.
ErrorOf(c) ==
    LET s == DistancesOf(c, samples, TRUE)
        d == DistancesOf(c, samples, FALSE)
        F(t) == Cardinality({i \in DOMAIN s : s[i] > t})
                    + Cardinality({i \in DOMAIN d : d[i] <= t})
        errors == {F(t) : t \in Range(s) \cup Range(d)}
    IN  CHOOSE m \in errors : \A e \in errors : m <= e

\* a comes before b, or is b, in lexicographic order.
RECURSIVE LexLeq(_, _)
LexLeq(a, b) ==
    \/ a = <<>>
    \/ b # <<>> /\ Head(a) < Head(b)
    \/ b # <<>> /\ Head(a) = Head(b) /\ LexLeq(Tail(a), Tail(b))

\* C17: for every size k best_elements_full reports, the reported subset is
\* a k-combination whose bestAmountFalse is at most that of every other
\* k-combination, the reported error is that count, and among the
\* combinations attaining it the reported one is the first in lexicographic
\* generation order.
C17_FullBestPerSize ==
    \A j \in DOMAIN freports :
        LET rep == freports[j] IN
        /\ rep.perm \in KCombinations(rep.size)
        /\ rep.error = ErrorOf(rep.perm)
        /\ \A c \in KCombinations(rep.size) :
              /\ rep.error <= ErrorOf(c)
              /\ rep.error = ErrorOf(c) => LexLeq(rep.perm, c)

\* A finished run over all the dimensions in which another subset of the
\* largest size reported has the error of the reported one, errors being left.
C17_Witness ==
    /\ fproc = "done" /\ amount_dim = EmbLen
    /\ freports[EmbLen].size = EmbLen - 1
    /\ freports[EmbLen].error > 0
    /\ \E c \in KCombinations(EmbLen - 1) :
          /\ c # freports[EmbLen].perm
          /\ ErrorOf(c) = freports[EmbLen].error

\* -------------------------------------------------------------- rate claims

\* The f32 value of n / d the claim asks for: NaN when d is 0, else n / d.
RateOrNaN(n, d) ==
    IF d = 0 THEN [kind |-> "NaN", num |-> 0, den |-> 0]
    ELSE [kind |-> "num", num |-> n, den |-> d]

\* C14: the false-discovery rate fp / (fp + tp) and the false-omission rate
\* fn / (fn + tn) are the NaN sentinel, and no crash, when their denominator
\* is zero, at any threshold and at the best threshold Result::calc_rel
\* uses; otherwise they are the quotients. calc_rel only fails on a Result
\* without distances, where no best threshold exists.
C14_RatesNaNOnZeroDenominator ==
    /\ ret.op \in {"rates", "calc_rel"} =>
          LET t == ret.threshold
              tp == Cardinality({i \in DOMAIN same : same[i] <= t})
              fne == Cardinality({i \in DOMAIN same : same[i] > t})
              fp == Cardinality({i \in DOMAIN diff : diff[i] <= t})
              tn == Cardinality({i \in DOMAIN diff : diff[i] > t})
          IN  /\ ret.fdr = RateOrNaN(fp, fp + tp)
              /\ ret.fomr = RateOrNaN(fne, fne + tn)
    /\ ret = Panic => same = <<>> /\ diff = <<>>

\* calc_rel on distances all at or below the best threshold: the
\* false-omission rate is NaN, the false-discovery rate a quotient.
C14_Witness ==
    /\ ret.op = "calc_rel" /\ same # <<>> /\ diff # <<>>
    /\ ret.fomr.kind = "NaN" /\ ret.fdr.kind = "num" /\ ret.fdr.num > 0

\* ---------------------------------------------------------- tie-break claims

\* The smallest observed distance with the least fn + fp.
FirstMinimiser ==
    CHOOSE t \in Observed :
        \A u \in Observed :
            \/ FalseAt(t) < FalseAt(u)
            \/ FalseAt(t) = FalseAt(u) /\ t <= u

\* C15: when several candidate thresholds attain the minimal fn + fp, the
\* threshold selected is the first in ascending order, the smallest observed
\* distance attaining the minimum; get_confusion_matrix and
\* calc_return_false agree on it, so calc_return_false is fn + fp of the
\* matrix get_confusion_matrix returns.
C15_FirstMinimalThreshold ==
    /\ ret.op = "get_confusion_matrix" =>
          /\ ret.threshold = FirstMinimiser
          /\ ret.cm.fne + ret.cm.fp = FalseAt(FirstMinimiser)
    /\ ret.op = "calc_return_false" =>
          /\ ret.value = FalseAt(FirstMinimiser)
          /\ ret.value = amount_false(get_confusion_matrix(same, diff).cm)
    /\ (get_confusion_matrix(same, diff) = Panic)
          <=> (calc_return_false(same, diff) = Panic)

\* calc_return_false on collections where a larger observed distance has
\* the same least fn + fp as the first minimiser, and errors are left.
C15_Witness ==
    /\ ret.op = "calc_return_false" /\ ret.value > 0
    /\ \E t \in Observed : t > FirstMinimiser /\ FalseAt(t) = ret.value
    /\ \E t \in Observed : t < FirstMinimiser

\* The indices of [0, amount_dim) not in fixed.
Unused == {x \in 0..(amount_dim - 1) : x \notin Range(fixed)}

\* C16: at every step of best_elements_greedy the index appended to fixed
\* is an unused index c of [0, amount_dim) whose error over fixed with c is
\* minimal among the unused indices, the smallest such index among ties,
\* and the error printed for the step is that minimal error.
C16_GreedyPicksMinimal ==
    [][(gproc = "run" /\ fixed' # fixed) =>
          LET c == fixed'[Len(fixed')] IN
          /\ fixed' = Append(fixed, c)
          /\ c \in Unused
          /\ \A u \in Unused :
                /\ ErrorOf(Append(fixed, c)) <= ErrorOf(Append(fixed, u))
                /\ ErrorOf(Append(fixed, c)) = ErrorOf(Append(fixed, u)) => c <= u
          /\ printed' = ErrorOf(Append(fixed, c))]_vars

\* After the first step over all the dimensions: index 0 was taken although
\* another index has the same error, and errors are left.
C16_Witness ==
    /\ gproc = "run" /\ amount_dim = EmbLen /\ fixed = <<0>>
    /\ printed > 0 /\ printed = ErrorOf(<<0>>)
    /\ \E u \in 1..(EmbLen - 1) : ErrorOf(<<u>>) = printed

\* ---------------------------------------------------------- proposed claims

\* The exact sum over the index list of (q(a[i]) - q(b[i]))^2.
RECURSIVE ExactDist(_, _, _)
ExactDist(indices, a, b) ==
    IF indices = <<>> THEN 0
    ELSE (Quantize(a[Head(indices) + 1]) - Quantize(b[Head(indices) + 1]))
             * (Quantize(a[Head(indices) + 1]) - Quantize(b[Head(indices) + 1]))
         + ExactDist(Tail(indices), a, b)

\* The exact distances of the first n samples with the given label.
RECURSIVE ExactDistances(_, _)
ExactDistances(n, label) ==
    IF n = 0 THEN <<>>
    ELSE ExactDistances(n - 1, label)
         \o (IF samples[n][1] = label
             THEN <<ExactDist(ProposedIndices, samples[n][2], samples[n][3])>>
             ELSE <<>>)

\* C18: in proposed the distance computed for every pair is the exact
\* non-negative integer sum over the fixed index list of
\* (q(a[i]) - q(b[i]))^2, q being the quantization to a signed 8-bit
\* integer: no difference of two quantized values overflows (the run does
\* not panic on a pair) or wraps before it is squared, and the 32-bit sum
\* does not overflow.
C18_ExactQuantizedDistance ==
    /\ pproc \in {"run", "done"} =>
          /\ same = ExactDistances(pk, TRUE)
          /\ diff = ExactDistances(pk, FALSE)
          /\ \A k \in DOMAIN same : same[k] \in 0..(2147483647)
          /\ \A k \in DOMAIN diff : diff[k] \in 0..(2147483647)
    /\ pproc = "panicked" => samples = <<>>

\* Where every difference of quantized coordinates fits 8 bits, the
\* distances recorded are the exact sums.
C18_ExactWhenDifferencesFit ==
    (/\ pproc \in {"run", "done"}
     /\ \A n \in 1..pk : \A i \in Range(ProposedIndices) :
           Quantize(samples[n][2][i + 1]) - Quantize(samples[n][3][i + 1])
               \in (0 - 128)..127)
    => /\ same = ExactDistances(pk, TRUE)
       /\ diff = ExactDistances(pk, FALSE)

====
